---- MODULE Spec2Model ----
(***************************************************************************)
(* Model of the Xweather MCP assistant: the JSON-RPC client               *)
(* (src/src/mcp_client.py) and the tool-calling loop                      *)
(* (src/src/weather_assistant.py).                                        *)
(*                                                                         *)
(* Texts are sequences of chunks.  A chunk is a record [c, d]: c is the   *)
(* chunk's characters and d the JSON document the chunk serialises        *)
(* (NoDoc for a chunk that is not a whole JSON text).  A response body is *)
(* given as the lines r.text.splitlines() yields.                         *)
(***************************************************************************)
EXTENDS Naturals, Sequences, FiniteSets, TLC

\* ------------------------------------------------------------------ bounds

\* Most lines of a text/event-stream body.
MaxLines == 4
\* Most tool calls the backend requests during one session, over all its
\* responses.
MaxCalls == 3
\* Most ask invocations on one session.
MaxAsks == 2
\* Most _rpc calls of one caller on a shared client.
MaxRpcs == 2

\* The for-loop of ask: range(2).
MaxRounds == 2

\* ------------------------------------------------------- JSON documents

\* Tool descriptors of a tools/list result (name "none": no name field).
DescForecast == [name |-> "forecast", description |-> "Forecast", inputSchema |-> "schema"]
DescBare == [name |-> "alerts", description |-> "none", inputSchema |-> "none"]
DescNoName == [name |-> "none", description |-> "Nameless", inputSchema |-> "schema"]
DescEmptyName == [name |-> "", description |-> "none", inputSchema |-> "none"]

\* Content parts of a tools/call result (text "none": no text field).
PartText(s) == [isdict |-> TRUE, type |-> "text", text |-> s]
PartImage == [isdict |-> TRUE, type |-> "image", text |-> "none"]
PartNotDict == [isdict |-> FALSE, type |-> "none", text |-> "none"]

\* A `result` value: t is its JSON type ("absent": no such field); for an
\* object, tools is the type of its `tools` field with the list in items,
\* content its `content` list and json its serialisation.
ResVal(t, tools, items, content, json) ==
    [t |-> t, tools |-> tools, items |-> items, content |-> content, json |-> json]

ResAbsent == ResVal("absent", "absent", <<>>, <<>>, "")
ResNull == ResVal("null", "absent", <<>>, <<>>, "null")
ResString == ResVal("string", "absent", <<>>, <<>>, "\"ok\"")
ResList == ResVal("list", "absent", <<>>, <<>>, "[1]")
ResEmpty == ResVal("object", "absent", <<>>, <<>>, "{}")
ResTools == ResVal("object", "list", <<DescForecast, DescBare>>, <<>>, "{tools:[forecast,alerts]}")
ResToolsMixed ==
    ResVal("object", "list", <<DescNoName, DescForecast, DescEmptyName>>, <<>>,
           "{tools:[?,forecast,'']}")
ResToolsBad == ResVal("object", "string", <<>>, <<>>, "{tools:'x'}")
ResToolsNull == ResVal("object", "null", <<>>, <<>>, "{tools:null}")
ResText == ResVal("object", "absent", <<>>, <<PartText("Sunny")>>, "{content:[text Sunny]}")
ResTextMulti ==
    ResVal("object", "absent", <<>>, <<PartText("A"), PartImage, PartText("B")>>,
           "{content:[text A,image,text B]}")
ResImage == ResVal("object", "absent", <<>>, <<PartImage, PartNotDict>>, "{content:[image,1]}")
ResBlankText ==
    ResVal("object", "absent", <<>>, <<PartText(""), PartText("none")>>,
           "{content:[text '',text]}")

ResTextGaps ==
    ResVal("object", "absent", <<>>, <<PartText("A"), PartText(""), PartText("B")>>,
           "{content:[text A,text '',text B]}")

ResObjects ==
    {ResEmpty, ResTools, ResToolsMixed, ResToolsBad, ResText, ResTextMulti, ResImage,
     ResBlankText, ResTextGaps, ResToolsNull}
ResVals == {ResAbsent, ResNull, ResString, ResList} \cup ResObjects

\* An `error` value: t its JSON type, n its number of members or characters
\* (0: empty), code and message its members ("none": no such member).
ErrVal(t, n, code, message) == [t |-> t, n |-> n, code |-> code, message |-> message]

ErrAbsent == ErrVal("absent", 0, "none", "none")
ErrNull == ErrVal("null", 0, "none", "none")
ErrEmptyObj == ErrVal("object", 0, "none", "none")
ErrObj == ErrVal("object", 2, "-32000", "boom")
ErrNoCode == ErrVal("object", 1, "none", "denied")
ErrString == ErrVal("string", 4, "none", "none")
ErrEmptyString == ErrVal("string", 0, "none", "none")

ErrVals == {ErrAbsent, ErrNull, ErrEmptyObj, ErrObj, ErrNoCode, ErrString, ErrEmptyString}

\* A parsed document: isdict whether it is a JSON object, jsonrpc its
\* `jsonrpc` member ("none": absent).
DocVal(isdict, jsonrpc, error, result) ==
    [isdict |-> isdict, jsonrpc |-> jsonrpc, error |-> error, result |-> result]

NoDoc == DocVal(FALSE, "nodoc", ErrAbsent, ResAbsent)
DocNotDict == DocVal(FALSE, "none", ErrAbsent, ResAbsent)
Docs ==
    {DocNotDict} \cup
    {DocVal(TRUE, j, e, r) : j \in {"2.0", "1.0", "none"}, e \in ErrVals, r \in ResVals}

DocOk(r) == DocVal(TRUE, "2.0", ErrAbsent, r)

\* ------------------------------------------------------------------ texts

Chunk(c) == [c |-> c, d |-> NoDoc]
\* The serialisation of document d.
JsonChunk(d) == [c |-> "json", d |-> d]
Space == Chunk(" ")
Newline == Chunk("\n")
Colon == Chunk(":")
DataPrefix == Chunk("data:")
Junk == Chunk("x")
\* Two halves of one JSON text: {"jsonrpc":"2.0", and "result":{}} .
HalfA == Chunk("{\"jsonrpc\":\"2.0\",")
HalfB == Chunk("\"result\":{}}")
DocHalves == DocOk(ResEmpty)

IsWhite(ch) == ch \in {Space, Newline}

RECURSIVE LStrip(_)
\* str.lstrip(): the text without its leading whitespace.
LStrip(t) == IF t # <<>> /\ IsWhite(Head(t)) THEN LStrip(Tail(t)) ELSE t

RECURSIVE RStrip(_)
RStrip(t) ==
    IF t # <<>> /\ IsWhite(t[Len(t)]) THEN RStrip(SubSeq(t, 1, Len(t) - 1)) ELSE t

\* str.strip()
Strip(t) == RStrip(LStrip(t))

RECURSIVE Join(_, _)
\* sep.join(parts), each part a text
Join(sep, parts) ==
    IF parts = <<>> THEN <<>>
    ELSE IF Len(parts) = 1 THEN parts[1]
    ELSE parts[1] \o <<sep>> \o Join(sep, Tail(parts))

\* "\n".join(parts)
JoinNl(parts) == Join(Newline, parts)

\* The text without its whitespace chunks (JSON ignores whitespace between
\* tokens; the chunks of this model are whole tokens).
Tokens(t) == SelectSeq(t, LAMBDA ch : ~IsWhite(ch))

\* json.loads(text): [ok, doc].
JsonLoads(t) ==
    LET k == Tokens(t) IN
    IF Len(k) = 1 /\ k[1].d # NoDoc THEN [ok |-> TRUE, doc |-> k[1].d]
    ELSE IF k = <<HalfA, HalfB>> THEN [ok |-> TRUE, doc |-> DocHalves]
    ELSE [ok |-> FALSE, doc |-> NoDoc]

\* --------------------------------------------------------------- outcomes

\* What an operation of the client yields: exc "none" and the result, or the
\* exception raised: its class in exc, its kind, and str(e) in text.
Ok(result) == [exc |-> "none", kind |-> "ok", text |-> <<>>, result |-> result]
Raise(exc, kind, text) == [exc |-> exc, kind |-> kind, text |-> text, result |-> ResAbsent]
NoOutcome == [exc |-> "none", kind |-> "none", text |-> <<>>, result |-> ResAbsent]

\* The length of a body preview, r.text[:600] (counted in chunks here).
PreviewLen == 600

\* str(x) of a member that may be missing: None prints as "None".
PyStr(s) == IF s = "none" THEN "None" ELSE s

\* bool(x) of an `error` value: absent (None), null, {} and "" are falsy.
Truthy(e) == e.t \notin {"absent", "null"} /\ e.n > 0

\* --------------------------------------------------- envelope validation

\* UnwrapJsonrpc looking at `result` before `error`.
UnwrapResultFirst(doc) ==
    IF ~doc.isdict \/ doc.jsonrpc # "2.0"
    THEN Raise("MCPError", "InvalidEnvelope", <<"Invalid JSON-RPC envelope">>)
    ELSE IF doc.result.t = "object"
    THEN Ok(doc.result)
    ELSE IF Truthy(doc.error) /\ doc.error.t = "object"
    THEN Raise("MCPError", "RemoteError",
               <<"MCP error ", PyStr(doc.error.code), ": ", PyStr(doc.error.message)>>)
    ELSE Raise("MCPError", "InvalidEnvelope", <<"Missing/invalid result in JSON-RPC response">>)

\* MCP._unwrap_jsonrpc
UnwrapJsonrpc(doc) ==
    IF ~doc.isdict \/ doc.jsonrpc # "2.0"
    THEN Raise("MCPError", "InvalidEnvelope", <<"Invalid JSON-RPC envelope">>)
    ELSE IF Truthy(doc.error)
    THEN IF doc.error.t = "object"
         THEN Raise("MCPError", "RemoteError",
                    <<"MCP error ", PyStr(doc.error.code), ": ", PyStr(doc.error.message)>>)
         \* err.get on a str, list or number
         ELSE Raise("AttributeError", "Crash", <<"object has no attribute 'get'">>)
    ELSE IF doc.result.t # "object"
    THEN Raise("MCPError", "InvalidEnvelope", <<"Missing/invalid result in JSON-RPC response">>)
    ELSE Ok(doc.result)

\* ------------------------------------------------------------------- SSE

\* last_data: None (some FALSE) or a text.
NoData == [some |-> FALSE, s |-> <<>>]
SomeData(t) == [some |-> TRUE, s |-> t]

StartsWith(line, ch) == line # <<>> /\ Head(line) = ch

\* One turn of the loop over the lines, on (data_buf, last_data).
SseLine(line, st) ==
    IF StartsWith(line, Colon) THEN st
    ELSE IF StartsWith(line, DataPrefix)
    THEN [buf |-> Append(st.buf, LStrip(Tail(line))), last |-> st.last]
    ELSE IF Strip(line) = <<>>
    THEN IF st.buf # <<>>
         THEN [buf |-> <<>>, last |-> SomeData(JoinNl(st.buf))]
         ELSE st
    ELSE st

RECURSIVE SseScan(_, _)
\* The loop over the lines, from state st.
SseScan(lines, st) ==
    IF lines = <<>> THEN st ELSE SseScan(Tail(lines), SseLine(Head(lines), st))

\* SseTrailing without the capture: data no blank line followed is lost.
SseTrailingLost(st) == st.last

\* The capture of trailing data that no blank line followed.
SseTrailing(st) == IF st.buf # <<>> THEN SomeData(JoinNl(st.buf)) ELSE st.last

\* last_data of MCP._parse_sse_to_json when the loop and the trailing
\* capture are done.
SseLastData(lines) == SseTrailing(SseScan(lines, [buf |-> <<>>, last |-> NoData]))

\* MCP._parse_sse_to_json: [out, doc]; out is an exception or NoOutcome.
ParseSseToJson(lines) ==
    LET last == SseLastData(lines)
        parsed == JsonLoads(last.s)
    IN  IF ~last.some \/ last.s = <<>>
        THEN [out |-> Raise("MCPError", "MalformedBody",
                            <<"SSE response contained no 'data:' payload">>),
              doc |-> NoDoc]
        ELSE IF ~parsed.ok
        THEN [out |-> Raise("MCPError", "MalformedBody", <<"SSE 'data' not valid JSON">>),
              doc |-> NoDoc]
        ELSE [out |-> NoOutcome, doc |-> parsed.doc]

\* -------------------------------------------------------------------- rpc

\* An HTTP exchange as the client sees it: transport "error" when the POST
\* raised httpx.HTTPError, else a status, a (lower-cased) Content-Type ("":
\* no header) and the body's lines.
HttpResponse(status, ctype, body) ==
    [transport |-> "ok", status |-> status, ctype |-> ctype, body |-> body]
TransportFailure == [transport |-> "error", status |-> 0, ctype |-> "", body |-> <<>>]

\* r.text of a body given by its lines.
BodyText(body) == JoinNl(body)

Min(a, b) == IF a < b THEN a ELSE b

\* r.text[:600] if r.text else "<empty body>"
Preview(body) ==
    LET t == BodyText(body) IN
    IF t = <<>> THEN <<"<empty body>">>
    ELSE [i \in 1..Min(Len(t), PreviewLen) |-> t[i].c]

IsJsonType(ctype) == ctype \in {"application/json", "application/json; charset=utf-8"}
IsSseType(ctype) == ctype \in {"text/event-stream", "text/event-stream; charset=utf-8"}

\* The rest of MCP._rpc once the POST has returned or raised: what it
\* returns or raises (out), with the last_data the SSE scan captured (data,
\* NoData off the SSE path), the document it parsed (doc, NoDoc when none)
\* and the verdict of envelope validation on it (env, NoOutcome when
\* validation did not run).
RpcRun(resp) ==
    LET whole == JsonLoads(BodyText(resp.body))
        sse == ParseSseToJson(resp.body)
        run(doc, out) == [data |-> NoData, doc |-> doc, env |-> UnwrapJsonrpc(doc), out |-> out]
        stop(out) == [data |-> NoData, doc |-> NoDoc, env |-> NoOutcome, out |-> out]
    IN  IF resp.transport = "error"
        THEN stop(Raise("MCPError", "Network", <<"Network error contacting MCP">>))
        ELSE IF resp.status < 200 \/ resp.status >= 300
        THEN stop(Raise("MCPError", "HttpStatus",
                        <<"HTTP ", ToString(resp.status), " from MCP; body preview:">>
                            \o Preview(resp.body)))
        ELSE IF IsJsonType(resp.ctype)
        THEN IF ~whole.ok
             THEN stop(Raise("MCPError", "MalformedBody", <<"Invalid JSON from MCP">>))
             ELSE run(whole.doc, UnwrapJsonrpc(whole.doc))
        ELSE IF IsSseType(resp.ctype)
        THEN [IF sse.out # NoOutcome
              THEN stop(sse.out)
              ELSE run(sse.doc, UnwrapJsonrpc(sse.doc))
                 EXCEPT !.data = SseLastData(resp.body)]
        \* Fallback: r.json() and the unwrapping both sit in the try, and
        \* except Exception turns whatever they raise into this error.
        ELSE IF whole.ok /\ UnwrapJsonrpc(whole.doc).exc = "none"
        THEN run(whole.doc, UnwrapJsonrpc(whole.doc))
        ELSE [data |-> NoData,
              doc |-> whole.doc,
              env |-> IF whole.ok THEN UnwrapJsonrpc(whole.doc) ELSE NoOutcome,
              out |-> Raise("MCPError", "UnexpectedContentType",
                            <<"Unexpected Content-Type '", resp.ctype, "'. Body preview:">>
                                \o Preview(resp.body))]

\* MCP._rpc, after the request was sent: the result or the exception.
Rpc(resp) == RpcRun(resp).out

\* ------------------------------------------------------ client operations

\* MCP.call_tool
CallTool(resp) == Rpc(resp)

\* ListTools without the isinstance check.
ListToolsUnchecked(resp) == Rpc(resp)

\* MCP.list_tools: the result whose items are the tools, or the exception.
ListTools(resp) ==
    LET res == Rpc(resp) IN
    IF res.exc # "none" THEN res
    ELSE IF res.result.tools \notin {"absent", "list"}
    THEN Raise("MCPError", "InvalidEnvelope", <<"Invalid tools/list shape:", res.result.json>>)
    ELSE res

\* ------------------------------------------------------------ tool schema

\* to_openai_tools
ToOpenaiTools(tools) ==
    LET named == SelectSeq(tools, LAMBDA t : t.name \notin {"none", ""})
    IN  [i \in 1..Len(named) |->
            [type |-> "function",
             name |-> named[i].name,
             description |->
                 IF named[i].description = "none" THEN "" ELSE named[i].description,
             parameters |->
                 IF named[i].inputSchema = "none"
                 THEN "{type:object,properties:{},required:[]}"
                 ELSE named[i].inputSchema]]

\* ExtractText that stops at the first text part.
ExtractTextFirst(result) ==
    LET texts == SelectSeq(result.content, LAMBDA c : c.isdict /\ c.type = "text")
        parts == [i \in 1..Len(texts) |-> IF texts[i].text = "none" THEN "" ELSE texts[i].text]
        kept == SelectSeq(parts, LAMBDA p : p # "")
    IN  IF kept # <<>> THEN <<kept[1]>> ELSE <<"json.dumps:", result.json>>

\* extract_text: the text as a sequence of strings.
ExtractText(result) ==
    LET texts == SelectSeq(result.content, LAMBDA c : c.isdict /\ c.type = "text")
        parts == [i \in 1..Len(texts) |-> IF texts[i].text = "none" THEN "" ELSE texts[i].text]
        kept == SelectSeq(parts, LAMBDA p : p # "")
        joined == Join("\n", [i \in 1..Len(kept) |-> <<kept[i]>>])
    IN  IF joined # <<>> THEN joined ELSE <<"json.dumps:", result.json>>

\* ------------------------------------------------------------------ inputs

\* Bodies that are one JSON text, or none.
JsonBodies ==
    {<<<<JsonChunk(d)>>>> : d \in Docs} \cup {<<>>, <<<<Junk>>>>, <<<<HalfA>>, <<HalfB>>>>}

SseDocA == DocOk(ResText)
SseDocB == DocVal(TRUE, "2.0", ErrObj, ResTextMulti)

\* Lines of an event stream: blank, whitespace only, a comment, data lines
\* (no space, one space, two spaces after the colon; halves of a text; an
\* empty payload), another field.
SseLines ==
    {<<>>, <<Space>>, <<Colon, Space, Junk>>,
     <<DataPrefix, JsonChunk(SseDocA)>>, <<DataPrefix, Space, JsonChunk(SseDocB)>>,
     <<DataPrefix, Space, Space, HalfA>>, <<DataPrefix, HalfB>>, <<DataPrefix>>,
     <<Junk, Colon, Space, Junk>>}

SseBodies == UNION {[1..n -> SseLines] : n \in 0..MaxLines}

Statuses == {199, 200, 299, 300, 500}
CTypes == {"application/json", "text/event-stream", "text/plain", ""}

\* The exchanges the codec is checked on.
Responses ==
    {TransportFailure}
        \cup {HttpResponse(st, ct, b) : st \in Statuses, ct \in CTypes, b \in JsonBodies}
        \cup {HttpResponse(200, "text/event-stream", b) : b \in SseBodies}

JsonReply(d) == HttpResponse(200, "application/json", <<<<JsonChunk(d)>>>>)

\* What the server may answer to tools/list during bootstrap.
ListResponses ==
    {JsonReply(DocOk(ResToolsMixed)), JsonReply(DocOk(ResEmpty)),
     JsonReply(DocOk(ResToolsBad)), TransportFailure,
     HttpResponse(500, "text/plain", <<<<Junk>>>>),
     JsonReply(DocVal(TRUE, "2.0", ErrObj, ResAbsent))}

\* The server's plain answer to tools/call.
ToolOk == JsonReply(DocOk(ResText))

\* The other answers to tools/call; one behaviour of the model meets ToolOk
\* and one of these (srv, fixed at the start).
ToolModes ==
    {HttpResponse(200, "text/event-stream",
                  <<<<DataPrefix, Space, JsonChunk(DocOk(ResTextMulti))>>, <<>>>>),
     TransportFailure,
     HttpResponse(500, "application/json", <<>>),
     HttpResponse(200, "application/json", <<<<Junk>>>>),
     JsonReply(DocVal(TRUE, "1.0", ErrAbsent, ResText)),
     JsonReply(DocVal(TRUE, "2.0", ErrNoCode, ResText)),
     JsonReply(DocVal(TRUE, "2.0", ErrString, ResAbsent)),
     HttpResponse(200, "text/plain", <<<<Junk>>>>)}

\* Message content: None (none TRUE) or a text, a sequence of strings.
NoContent == [none |-> TRUE, s |-> <<>>]
Content(s) == [none |-> FALSE, s |-> s]

\* A conversation message; a call id is a pair <<k, j>>, the j-th call of
\* the k-th assistant message (<<>>: no id).
Msg(role, content, tool_calls, tool_call_id) ==
    [role |-> role, content |-> content, tool_calls |-> tool_calls,
     tool_call_id |-> tool_call_id]

SystemPrompt == <<"You are a helpful weather assistant with access to Xweather tools.">>
\* The question of the k-th ask.
Question(k) == <<"question ", ToString(k)>>

\* Argument strings the backend may emit: a JSON object, and broken JSON.
GoodArgs == "{\"location\":\"Oslo\"}"
BadArgs == "{\"location\":"
ArgTexts == {GoodArgs, BadArgs}

\* json.loads(tc.function.arguments) succeeds.
ArgsParse(a) == a = GoodArgs

ToolNames == {"forecast"}
Calls == [name : ToolNames, arguments : ArgTexts]
CallLists == UNION {[1..n -> Calls] : n \in 1..MaxCalls}

\* What the backend may answer: a final text (or none), or tool calls with
\* or without a text.
BackendResponses ==
    [content : {NoContent, Content(<<>>), Content(<<"Sunny.">>)}, calls : {<<>>}]
        \cup [content : {NoContent, Content(<<"Checking.">>)}, calls : CallLists]

\* ------------------------------------------------------------------- state

VARIABLES
    pc,        \* where the program is: "start", "fallback" (build_clients),
               \* "bootFailed", "idle", "model", "tools", "returned", "askRaised"
    made,      \* the MCP clients constructed so far
    ids,       \* each client's _id counter
    reqs,      \* the requests POSTed so far, in order
    mcp,       \* the session's client (self.mcp), "none" before bootstrap
    mode,      \* the auth mode build_clients returned
    oa_tools,  \* the cached tool schema (self.oa_tools)
    boot,      \* the bootstrap attempts made: client and whether it succeeded
    raised,    \* the exception that left build_clients or ask
    asks,      \* ask invocations started
    requested, \* tool calls the backend has requested so far
    messages,  \* the message sequence of the running ask
    round,     \* iterations of ask's for-loop entered
    tc,        \* index of the tool call handled next (0: none)
    last,      \* what the latest call_tool of this ask returned or raised
    answer,    \* the value ask returned
    askBase,   \* len(reqs) when the running ask began
    sent,      \* what the latest backend call was given
    srv,       \* the server's other answer to tools/call in this behaviour
    cpc,       \* codec check: "off", "send", "recv", "done", "shown"
    resp,      \* codec check: the HTTP exchange
    run,       \* codec check: what _rpc parsed, validated and yielded
    shown,     \* codec check: what extract_text made of the result
    listed,    \* codec check: what list_tools yields on the exchange
    thr,       \* shared client: each caller's place in _rpc and its locals
    sharedId,  \* shared client: the client's _id
    wire,      \* shared client: the requests posted, with their callers
    clock      \* shared client: steps taken so far

sessionVars ==
    <<pc, made, ids, reqs, mcp, mode, oa_tools, boot, raised, asks, requested, messages,
      round, tc, last, answer, askBase, sent, srv>>
codecVars == <<cpc, resp, run, shown, listed>>
raceVars == <<thr, sharedId, wire, clock>>
vars == <<sessionVars, codecVars, raceVars>>

Clients == {"header", "query"}

\* build_clients: the URL and the extra headers each client is made with.
ClientUrl(c) == IF c = "header" THEN "XW_MCP" ELSE "XW_MCP?api_key=XW_TOKEN"
ClientAuthHeader(c) == c = "header"

\* NextId that returns the incremented value without storing it.
NextIdNotStored(n) == [counter |-> n, id |-> n + 1]

\* MCP._next_id on a counter n: the counter after, and the id returned.
NextId(n) == [counter |-> n + 1, id |-> n + 1]

\* The request _rpc posts for client c with id i.
Request(c, i, method) ==
    [client |-> c, id |-> i, method |-> method, url |-> ClientUrl(c),
     auth |-> ClientAuthHeader(c)]

\* _rpc up to the POST: the counter moves and the request goes out, whatever
\* comes back.
Post(c, method) ==
    /\ ids' = [ids EXCEPT ![c] = NextId(ids[c]).counter]
    /\ reqs' = Append(reqs, Request(c, NextId(ids[c]).id, method))

\* except Exception: the exception classes it catches.
Caught(exc) == exc \in {"MCPError", "AttributeError"}

NoAnswer == [some |-> FALSE, s |-> <<>>]
NoSent == [messages |-> <<>>, tools |-> <<>>, tool_choice |-> "none"]
NoRun == [data |-> NoData, doc |-> NoDoc, env |-> NoOutcome, out |-> NoOutcome]
NoShown == [some |-> FALSE, s |-> <<>>]

\* The callers that share one client, and a caller's state: its place in
\* _rpc ("off": not running, "idle", "loaded", "stored", "read"), the value
\* of self._id it loaded, the id _next_id returned to it, when its _next_id
\* began and ended, and the calls it has made.
Callers == {"a", "b"}
CallerAt(place) == [pc |-> place, reg |-> 0, ret |-> 0, start |-> 0, end |-> 0, calls |-> 0]
\* No caller shares a client.
NoRace ==
    /\ thr = [t \in Callers |-> CallerAt("off")]
    /\ sharedId = 0
    /\ wire = <<>>
    /\ clock = 0

askVars == <<asks, requested, messages, round, tc, last, answer, askBase, sent>>

\* The session before build_clients runs.
InitSession ==
    /\ pc = "start"
    /\ made = {}
    /\ ids = [c \in Clients |-> 0]
    /\ reqs = <<>>
    /\ mcp = "none"
    /\ mode = "none"
    /\ oa_tools = <<>>
    /\ boot = <<>>
    /\ raised = NoOutcome
    /\ asks = 0
    /\ requested = 0
    /\ messages = <<>>
    /\ round = 0
    /\ tc = 0
    /\ last = NoOutcome
    /\ answer = NoAnswer
    /\ askBase = 0
    /\ sent = NoSent

Init ==
    /\ InitSession
    /\ srv \in ToolModes
    /\ cpc = "off"
    /\ resp = TransportFailure
    /\ run = NoRun
    /\ shown = NoShown
    /\ listed = NoOutcome
    /\ NoRace

\* -------------------------------------------------------------- bootstrap

\* BootNext as a retry loop: a failed query attempt is tried again.
BootNextRetry(stage, out) ==
    IF out.exc = "none" THEN "idle"
    ELSE IF Caught(out.exc) THEN "fallback"
    ELSE "bootFailed"

\* build_clients: where it goes after an attempt made at `stage`.
BootNext(stage, out) ==
    IF out.exc = "none" THEN "idle"
    ELSE IF stage = "start" /\ Caught(out.exc) THEN "fallback"
    ELSE "bootFailed"

\* One attempt of build_clients with client c, the server answering r; on
\* success WeatherAssistant.__init__ keeps the client and the tool schema.
Attempt(stage, c, r) ==
    LET out == ListTools(r) IN
    /\ pc = stage
    /\ made' = made \cup {c}
    /\ Post(c, "tools/list")
    /\ boot' = Append(boot, [client |-> c, ok |-> out.exc = "none"])
    /\ pc' = BootNext(stage, out)
    /\ IF out.exc = "none"
       THEN /\ mcp' = c
            /\ mode' = c
            /\ oa_tools' = ToOpenaiTools(out.result.items)
       ELSE UNCHANGED <<mcp, mode, oa_tools>>
    /\ raised' = IF pc' = "bootFailed" THEN out ELSE raised
    /\ UNCHANGED <<askVars, srv, codecVars, raceVars>>

\* Header auth first.
BuildHeader == \E r \in ListResponses : Attempt("start", "header", r)

\* Then query-parameter auth.
BuildQuery == \E r \in ListResponses : Attempt("fallback", "query", r)

\* -------------------------------------------------------------------- ask

NumAssistant(msgs) == Len(SelectSeq(msgs, LAMBDA m : m.role = "assistant"))

\* The tool calls of the k-th assistant message, with their ids.
WithIds(calls, k) ==
    [j \in 1..Len(calls) |->
        [id |-> <<k, j>>, name |-> calls[j].name, arguments |-> calls[j].arguments]]

\* ReturnValue taking the first response's message for msg.
ReturnValueFirst(msgs) ==
    LET msg == msgs[3] IN
    IF msg.content.none \/ msg.content.s = <<>> THEN <<"(no content)">> ELSE msg.content.s

\* msg.content or "(no content)", msg the message appended last.
ReturnValue(msgs) ==
    LET msg == msgs[Len(msgs)] IN
    IF msg.content.none \/ msg.content.s = <<>> THEN <<"(no content)">> ELSE msg.content.s

\* InitialMessages of a session that keeps the questions asked before.
InitialMessagesKept(k) ==
    <<Msg("system", Content(SystemPrompt), <<>>, <<>>)>>
        \o [i \in 1..k |-> Msg("user", Content(Question(i)), <<>>, <<>>)]

\* The list ask starts from, for the k-th question of the session.
InitialMessages(k) ==
    <<Msg("system", Content(SystemPrompt), <<>>, <<>>),
      Msg("user", Content(Question(k)), <<>>, <<>>)>>

\* ask up to its first backend call.
AskBegin ==
    /\ pc = "idle"
    /\ asks < MaxAsks
    /\ messages' = InitialMessages(asks + 1)
    /\ pc' = "model"
    /\ asks' = asks + 1
    /\ round' = 0
    /\ tc' = 0
    /\ last' = NoOutcome
    /\ answer' = NoAnswer
    /\ askBase' = Len(reqs)
    /\ sent' = NoSent
    /\ UNCHANGED <<made, ids, reqs, mcp, mode, oa_tools, boot, raised, requested, srv,
                   codecVars, raceVars>>

\* RunsTools without the cap on the rounds.
RunsToolsNoCap(rnd, msg) == msg.tool_calls # <<>>

\* RunsTools without the break on a response with no tool calls.
RunsToolsNoBreak(rnd, msg) == rnd < MaxRounds

\* Whether the loop goes on to run the tool calls of msg.
RunsTools(rnd, msg) == rnd < MaxRounds /\ msg.tool_calls # <<>>

\* BackendTools of a call made without the schema.
BackendToolsNone(cached) == <<>>

\* tools=self.oa_tools: the schema a backend call is given.
BackendTools(cached) == cached

\* A backend call returns: the message is appended; then either the loop
\* runs its tool calls or ask returns.
ModelRespond ==
    /\ pc = "model"
    /\ \E r \in BackendResponses :
          LET k == NumAssistant(messages) + 1
              msg == Msg("assistant", r.content, WithIds(r.calls, k), <<>>)
          IN  /\ requested + Len(r.calls) <= MaxCalls
              /\ requested' = requested + Len(r.calls)
              /\ messages' = Append(messages, msg)
              /\ sent' = [messages |-> messages, tools |-> BackendTools(oa_tools),
                          tool_choice |-> IF k = 1 THEN "auto" ELSE "none"]
              /\ IF RunsTools(round, msg)
                 THEN /\ pc' = "tools"
                      /\ round' = round + 1
                      /\ tc' = 1
                      /\ answer' = answer
                 ELSE /\ pc' = "returned"
                      /\ round' = round
                      /\ tc' = 0
                      /\ answer' = [some |-> TRUE, s |-> ReturnValue(messages')]
    /\ UNCHANGED <<made, ids, reqs, mcp, mode, oa_tools, boot, raised, asks, last, askBase,
                   srv, codecVars, raceVars>>

\* The assistant message whose tool calls are being run: tc - 1 tool
\* messages follow it.
CurrentMsg == messages[Len(messages) - (tc - 1)]

\* HandleCall without the `continue` after bad arguments: the call goes on
\* to call_tool.
HandleCallNoContinue(call, r) ==
    LET out == CallTool(r) IN
    [invoke |-> TRUE, out |-> out,
     text |-> IF ~ArgsParse(call.arguments) THEN <<"Bad args: ", "JSONDecodeError">>
              ELSE IF out.exc = "none" THEN ExtractText(out.result)
              ELSE <<"Error calling ", call.name, ": ">> \o out.text,
     escapes |-> out.exc # "none" /\ ~Caught(out.exc)]

\* HandleCall with no try around call_tool: what it raises leaves ask.
HandleCallUncaught(call, r) ==
    IF ~ArgsParse(call.arguments)
    THEN [invoke |-> FALSE, out |-> NoOutcome,
          text |-> <<"Bad args: ", "JSONDecodeError">>, escapes |-> FALSE]
    ELSE LET out == CallTool(r) IN
         [invoke |-> TRUE, out |-> out,
          text |-> IF out.exc = "none" THEN ExtractText(out.result) ELSE <<>>,
          escapes |-> out.exc # "none"]

\* The body of the loop over msg.tool_calls for one call, the server
\* answering r: whether call_tool is invoked, what it yields, the content of
\* the tool message, and whether an exception escapes.
HandleCall(call, r) ==
    IF ~ArgsParse(call.arguments)
    THEN [invoke |-> FALSE, out |-> NoOutcome,
          text |-> <<"Bad args: ", "JSONDecodeError">>, escapes |-> FALSE]
    ELSE LET out == CallTool(r) IN
         [invoke |-> TRUE, out |-> out,
          text |-> IF out.exc = "none" THEN ExtractText(out.result)
                   ELSE <<"Error calling ", call.name, ": ">> \o out.text,
          escapes |-> out.exc # "none" /\ ~Caught(out.exc)]

\* CallAtTurn of a loop that walks msg.tool_calls from the end.
CallAtTurnReversed(calls, t) == calls[Len(calls) + 1 - t]

\* `for tc in msg.tool_calls`: the call the t-th turn of the loop handles.
CallAtTurn(calls, t) == calls[t]

\* RoundOver of a loop left after its first turn.
RoundOverEarly(calls, t) == TRUE

\* The loop over msg.tool_calls is exhausted after its t-th turn.
RoundOver(calls, t) == t >= Len(calls)

\* One tool call of the round is handled; after the last one the backend
\* is called again.
ToolCall ==
    /\ pc = "tools"
    /\ \E r \in {ToolOk, srv} :
          LET call == CallAtTurn(CurrentMsg.tool_calls, tc)
              h == HandleCall(call, r)
          IN  /\ IF h.invoke
                 THEN Post(mcp, "tools/call") /\ last' = h.out
                 ELSE UNCHANGED <<ids, reqs, last>>
              /\ IF h.escapes
                 THEN /\ pc' = "askRaised"
                      /\ raised' = h.out
                      /\ UNCHANGED <<messages, tc>>
                 ELSE /\ messages' = Append(messages, Msg("tool", Content(h.text), <<>>, call.id))
                      /\ raised' = raised
                      /\ IF ~RoundOver(CurrentMsg.tool_calls, tc)
                         THEN pc' = "tools" /\ tc' = tc + 1
                         ELSE pc' = "model" /\ tc' = 0
    /\ UNCHANGED <<made, mcp, mode, oa_tools, boot, asks, requested, round, answer, askBase,
                   sent, srv, codecVars, raceVars>>

\* The caller takes the answer; the ask's locals are gone.
Present ==
    /\ pc = "returned"
    /\ pc' = "idle"
    /\ messages' = <<>>
    /\ round' = 0
    /\ last' = NoOutcome
    /\ answer' = NoAnswer
    /\ sent' = NoSent
    /\ UNCHANGED <<made, ids, reqs, mcp, mode, oa_tools, boot, raised, asks, requested, tc,
                   askBase, srv, codecVars, raceVars>>

Next == BuildHeader \/ BuildQuery \/ AskBegin \/ ModelRespond \/ ToolCall \/ Present

Spec == Init /\ [][Next]_vars

\* The session when every backend call and every call_tool comes back: the
\* calls block, so a call that comes back lets the ask take its next step.
SpecLive == Spec /\ WF_vars(ModelRespond) /\ WF_vars(ToolCall)

\* ------------------------------------------------------------ codec check

\* _rpc on its own, over every exchange of Responses.
CodecInit ==
    /\ InitSession
    /\ srv = ToolOk
    /\ cpc = "send"
    /\ resp = TransportFailure
    /\ run = NoRun
    /\ shown = NoShown
    /\ listed = NoOutcome
    /\ NoRace

\* The POST returns (or raises).
CodecPost ==
    /\ cpc = "send"
    /\ resp' \in Responses
    /\ cpc' = "recv"
    /\ UNCHANGED <<run, shown, listed, sessionVars, raceVars>>

\* The rest of _rpc runs on the exchange.
CodecDecode ==
    /\ cpc = "recv"
    /\ run' = RpcRun(resp)
    /\ cpc' = "done"
    /\ UNCHANGED <<resp, shown, listed, sessionVars, raceVars>>

\* A result that came back is rendered, as ask does after call_tool.
CodecExtract ==
    /\ cpc = "done"
    /\ run.out.exc = "none"
    /\ shown' = [some |-> TRUE, s |-> ExtractText(run.out.result)]
    /\ cpc' = "shown"
    /\ UNCHANGED <<resp, run, listed, sessionVars, raceVars>>

\* list_tools on the exchange: _rpc as decoded, then the check of `tools`.
CodecList ==
    /\ cpc = "done"
    /\ listed' = ListTools(resp)
    /\ cpc' = "listed"
    /\ UNCHANGED <<resp, run, shown, sessionVars, raceVars>>

CodecNext == CodecPost \/ CodecDecode \/ CodecExtract \/ CodecList

SpecCodec == CodecInit /\ [][CodecNext]_vars

\* ---------------------------------------------------------- shared client

\* Two callers run _rpc on one client with no lock.  `self._id += 1` is a
\* load and a store, `return self._id` another load; a switch of threads
\* may fall between any two of them.
RaceInit ==
    /\ InitSession
    /\ srv = ToolOk
    /\ cpc = "off"
    /\ resp = TransportFailure
    /\ run = NoRun
    /\ shown = NoShown
    /\ listed = NoOutcome
    /\ thr = [t \in Callers |-> CallerAt("idle")]
    /\ sharedId = 0
    /\ wire = <<>>
    /\ clock = 0

\* _rpc begins and _next_id loads self._id.
IdLoad(t) ==
    /\ thr[t].pc = "idle"
    /\ thr[t].calls < MaxRpcs
    /\ thr' = [thr EXCEPT ![t].pc = "loaded", ![t].reg = sharedId, ![t].start = clock + 1]
    /\ clock' = clock + 1
    /\ UNCHANGED <<sharedId, wire, sessionVars, codecVars>>

\* _next_id stores the sum.
IdStore(t) ==
    /\ thr[t].pc = "loaded"
    /\ sharedId' = NextId(thr[t].reg).counter
    /\ thr' = [thr EXCEPT ![t].pc = "stored"]
    /\ clock' = clock + 1
    /\ UNCHANGED <<wire, sessionVars, codecVars>>

\* _next_id returns self._id as it is now.
IdRead(t) ==
    /\ thr[t].pc = "stored"
    /\ thr' = [thr EXCEPT ![t].pc = "read", ![t].ret = sharedId, ![t].end = clock + 1]
    /\ clock' = clock + 1
    /\ UNCHANGED <<sharedId, wire, sessionVars, codecVars>>

\* The payload with that id is posted.
RpcSend(t) ==
    /\ thr[t].pc = "read"
    /\ wire' = Append(wire, [caller |-> t, id |-> thr[t].ret,
                             start |-> thr[t].start, end |-> thr[t].end])
    /\ thr' = [thr EXCEPT ![t].pc = "idle", ![t].calls = thr[t].calls + 1]
    /\ clock' = clock + 1
    /\ UNCHANGED <<sharedId, sessionVars, codecVars>>

RaceNext == \E t \in Callers : IdLoad(t) \/ IdStore(t) \/ IdRead(t) \/ RpcSend(t)

SpecRace == RaceInit /\ [][RaceNext]_vars

\* ------------------------------------------------------------ properties

\* Indices of the assistant messages of the running ask, and the latest.
AsstIdx == {i \in 1..Len(messages) : messages[i].role = "assistant"}
LastAsst == CHOOSE i \in AsstIdx : \A k \in AsstIdx : k <= i

\* The calls of assistant message a whose tool message is there.
HandledCalls(a) ==
    {j \in 1..Len(messages[a].tool_calls) :
        a + j <= Len(messages) /\ messages[a + j].role = "tool"}

\* Assistant messages whose round has been run to its end.
RoundDone(a) == a < LastAsst

\* C1: an ask calls the backend at most 3 times and runs at most 2 rounds
\* of tool calls; the calls the third response requests are never run, and
\* ask has returned once that response is in.
C1_RoundCap ==
    /\ Cardinality(AsstIdx) <= 3
    /\ Cardinality({a \in AsstIdx : HandledCalls(a) # {}}) <= 2
    /\ round <= 2
    /\ Cardinality(AsstIdx) = 3 =>
          /\ pc = "returned"
          /\ LastAsst = Len(messages)
          /\ answer.some

\* Three responses, each requesting a tool call, and ask has returned.
C1_Witness ==
    /\ pc = "returned"
    /\ Cardinality(AsstIdx) = 3
    /\ \A a \in AsstIdx : messages[a].tool_calls # <<>>

\* The text a message carries, or the placeholder when it has none.
TextOrPlaceholder(m) ==
    IF m.content.none \/ m.content.s = <<>> THEN <<"(no content)">> ELSE m.content.s

\* C2: when the first backend response requests no tool call, ask has
\* returned that response's text after this one backend call, and no
\* request has gone to the protocol client since the ask began.
C2_NoToolsFirst ==
    (Len(messages) >= 3 /\ messages[3].tool_calls = <<>>) =>
        /\ pc = "returned"
        /\ Len(messages) = 3
        /\ answer = [some |-> TRUE, s |-> TextOrPlaceholder(messages[3])]
        /\ Len(reqs) = askBase

\* A second ask returned the text of its first response, which asked for no
\* tool, after an ask that did call tools.
C2_Witness ==
    /\ pc = "returned"
    /\ asks = 2
    /\ Len(messages) = 3
    /\ messages[3].tool_calls = <<>>
    /\ answer.s = <<"Sunny.">>
    /\ Len(reqs) > 1

\* The handled calls of the running ask, as pairs <<a, j>>.
Handled == {<<a, j>> : a \in AsstIdx, j \in 1..MaxCalls} \cap
           UNION {{<<a, j>> : j \in HandledCalls(a)} : a \in AsstIdx}
CallAt(p) == messages[p[1]].tool_calls[p[2]]
ToolMsgAt(p) == messages[p[1] + p[2]]

\* C3: a call whose argument string is not valid JSON causes no call_tool
\* (the requests sent during the ask are exactly the handled calls with
\* valid arguments); its tool message is the diagnostic with its id; and
\* the calls after it in the round are handled all the same (a round that
\* is over has a tool message for every call, a round under way is at the
\* call after the handled ones).
C3_BadArgs ==
    /\ \A p \in Handled :
          ~ArgsParse(CallAt(p).arguments) =>
              ToolMsgAt(p) = Msg("tool", Content(<<"Bad args: ", "JSONDecodeError">>), <<>>,
                                 CallAt(p).id)
    /\ pc \in {"model", "tools", "returned"} =>
          Len(reqs) - askBase = Cardinality({p \in Handled : ArgsParse(CallAt(p).arguments)})
    /\ \A a \in AsstIdx :
          /\ RoundDone(a) => HandledCalls(a) = 1..Len(messages[a].tool_calls)
          /\ (pc = "tools" /\ a = LastAsst) =>
                /\ HandledCalls(a) = 1..(tc - 1)
                /\ tc <= Len(messages[a].tool_calls)
    /\ \A p \in Handled : ToolMsgAt(p).tool_call_id = CallAt(p).id

\* A round whose first call had bad arguments and whose second call went
\* to the protocol client.
C3_Witness ==
    \E a \in AsstIdx :
        /\ HandledCalls(a) = {1, 2}
        /\ ~ArgsParse(messages[a].tool_calls[1].arguments)
        /\ ArgsParse(messages[a].tool_calls[2].arguments)
        /\ messages[a + 1].content.s = <<"Bad args: ", "JSONDecodeError">>
        /\ Len(reqs) = askBase + 1
        /\ last.kind = "ok"

\* The latest handled call that went to call_tool.
Invoked == {p \in Handled : ArgsParse(CallAt(p).arguments)}
LatestInvoked ==
    CHOOSE p \in Invoked : \A q \in Invoked : q[1] < p[1] \/ (q[1] = p[1] /\ q[2] <= p[2])

ProtocolErrorKinds ==
    {"Network", "HttpStatus", "MalformedBody", "InvalidEnvelope", "RemoteError",
     "UnexpectedContentType"}

\* C4: a failing call_tool never leaves ask and never stops the round: the
\* call gets the tool message "Error calling <name>: <detail>" with its id,
\* the round goes on (every call of a finished round has its tool message)
\* and the backend is called again (a finished round is followed by the
\* next assistant message).
C4_ToolFailureInline ==
    /\ pc # "askRaised"
    /\ last.exc # "none" =>
          /\ Invoked # {}
          /\ ToolMsgAt(LatestInvoked) =
                Msg("tool",
                    Content(<<"Error calling ", CallAt(LatestInvoked).name, ": ">> \o last.text),
                    <<>>, CallAt(LatestInvoked).id)
          /\ pc \in {"tools", "model", "returned"}
          /\ pc = "returned" => LastAsst > LatestInvoked[1]
    /\ \A a \in AsstIdx :
          RoundDone(a) =>
              /\ HandledCalls(a) = 1..Len(messages[a].tool_calls)
              /\ messages[a + Len(messages[a].tool_calls) + 1].role = "assistant"

\* A round of two calls: the first failed with a protocol error, the second
\* was still made and succeeded, and the backend answered again.
C4_Witness ==
    /\ pc = "returned"
    /\ Len(messages) = 6
    /\ Len(messages[3].tool_calls) = 2
    /\ messages[4].content.s[1] = "Error calling "
    /\ messages[5].content.s = <<"Sunny">>
    /\ last.kind = "ok"
    /\ Rpc(srv).kind \in ProtocolErrorKinds

\* C5: what ask returns is the text of the assistant message appended last,
\* or "(no content)" when that message has no text or an empty one.
C5_ReturnsLatest ==
    pc = "returned" =>
        /\ answer.some
        /\ answer.s = TextOrPlaceholder(messages[LastAsst])
        /\ LastAsst = Len(messages)

\* At the round cap: the third response has calls and no text, the earlier
\* ones had a text, and the placeholder is returned.
C5_Witness ==
    /\ pc = "returned"
    /\ Cardinality(AsstIdx) = 3
    /\ messages[3].content.s = <<"Checking.">>
    /\ messages[LastAsst].content.none
    /\ messages[LastAsst].tool_calls # <<>>
    /\ answer.s = <<"(no content)">>

\* The requests of client c, in the order they were sent.
ReqsOf(c) == SelectSeq(reqs, LAMBDA q : q.client = c)
BootDone == pc \notin {"start", "fallback"}
HeaderFailed == Len(boot) >= 1 /\ ~boot[1].ok

\* C6: the query-parameter attempt is made exactly when the header attempt
\* failed, and once.  When the header attempt succeeds the session uses the
\* header client in mode "header" and the query client never sends
\* anything; when it fails, one tools/list goes out on the query client,
\* with the token in the URL and no Authorization header; when that fails
\* too, its failure leaves build_clients and there is no third attempt.
C6_Bootstrap ==
    /\ Len(boot) <= 2
    /\ Len(SelectSeq(reqs, LAMBDA q : q.method = "tools/list")) = Len(boot)
    /\ Len(boot) >= 1 => boot[1].client = "header" /\ reqs[1].client = "header"
    /\ Len(boot) = 2 =>
          /\ HeaderFailed
          /\ boot[2].client = "query"
          /\ reqs[2] = [client |-> "query", id |-> 1, method |-> "tools/list",
                        url |-> "XW_MCP?api_key=XW_TOKEN", auth |-> FALSE]
    /\ BootDone => (Len(boot) = 2 <=> HeaderFailed)
    /\ (BootDone /\ ~HeaderFailed) =>
          /\ mcp = "header" /\ mode = "header"
          /\ "query" \notin made
          /\ ReqsOf("query") = <<>>
    /\ (Len(boot) = 2 /\ boot[2].ok) => mcp = "query" /\ mode = "query" /\ pc # "bootFailed"
    /\ (Len(boot) = 2 /\ ~boot[2].ok) =>
          /\ pc = "bootFailed"
          /\ raised \in {ListTools(r) : r \in ListResponses}
          /\ raised.exc # "none"
          /\ mcp = "none"
    /\ pc = "bootFailed" => Len(boot) = 2 /\ ~boot[2].ok

\* Both attempts failed: two requests went out and the second failure is
\* what build_clients raised.
C6_Witness ==
    /\ pc = "bootFailed"
    /\ Len(reqs) = 2
    /\ raised.kind = "HttpStatus"

\* C7: the n-th request a client sends carries id n, whatever the outcome
\* of the requests before it.
C7_IdsCount ==
    \A c \in Clients : \A n \in 1..Len(ReqsOf(c)) : ReqsOf(c)[n].id = n

\* A client that sent a tools/list and three tools/call, the latest of
\* which failed.
C7_Witness ==
    /\ Len(ReqsOf("query")) = 4
    /\ ReqsOf("query")[4].id = 4
    /\ last.exc # "none"
    /\ asks = 2

\* An SSE body read as a stream of events: comment lines dropped, blank
\* lines separating blocks, an event being a block with a data line.
IsComment(line) == line # <<>> /\ line[1].c = ":"
IsData(line) == line # <<>> /\ line[1].c = "data:"
IsBlank(line) == \A i \in 1..Len(line) : line[i].c \in {" ", "\n"}
NoComments(body) == SelectSeq(body, LAMBDA l : ~IsComment(l))
DataAt(body) == {i \in 1..Len(body) : IsData(body[i])}
BlankAt(body) == {i \in 1..Len(body) : IsBlank(body[i])}
SetMax(S) == CHOOSE x \in S : \A y \in S : y <= x
SetMin(S) == CHOOSE x \in S : \A y \in S : x <= y
\* The block of lines around the last data line of a comment-free body.
LastEventFrom(b) == SetMax({0} \cup {i \in BlankAt(b) : i < SetMax(DataAt(b))}) + 1
LastEventTo(b) == SetMin({Len(b) + 1} \cup {i \in BlankAt(b) : i > SetMax(DataAt(b))}) - 1
\* A data line's value: what follows "data:", leading whitespace dropped.
RECURSIVE DataValue(_)
DataValue(t) == IF t # <<>> /\ t[1].c \in {" ", "\n"} THEN DataValue(Tail(t)) ELSE t
RECURSIVE NlJoined(_)
NlJoined(ps) ==
    IF Len(ps) = 0 THEN <<>>
    ELSE IF Len(ps) = 1 THEN ps[1]
    ELSE ps[1] \o <<[c |-> "\n", d |-> NoDoc]>> \o NlJoined(Tail(ps))
\* The payload of the last event of body: its data values, joined by newline.
LastEventPayload(body) ==
    LET b == NoComments(body)
        block == SubSeq(b, LastEventFrom(b), LastEventTo(b))
        datas == SelectSeq(block, IsData)
    IN  NlJoined([i \in 1..Len(datas) |-> DataValue(Tail(datas[i]))])
\* The number of events of the body: the data lines that are the first of
\* their block.
EventCount(body) ==
    LET b == NoComments(body) IN
    Cardinality({i \in DataAt(b) :
                    \A m \in DataAt(b) : m < i => \E k \in BlankAt(b) : m < k /\ k < i})

SseDecoded ==
    /\ cpc = "done"
    /\ resp.transport = "ok"
    /\ resp.status = 200
    /\ resp.ctype = "text/event-stream"

\* C8: of an event stream with at least one event the codec takes the
\* payload of the last event (its data values joined by newline), with or
\* without a blank line after it and whatever comments there are: that
\* payload is what is parsed as JSON, its document what is validated, and
\* a payload that is no JSON fails as a malformed body.
C8_SseLastEvent ==
    (SseDecoded /\ DataAt(NoComments(resp.body)) # {}) =>
        LET p == LastEventPayload(resp.body) IN
        /\ run.data = [some |-> TRUE, s |-> p]
        /\ IF p # <<>> /\ JsonLoads(p).ok
           THEN run.doc = JsonLoads(p).doc /\ run.out = UnwrapJsonrpc(run.doc)
           ELSE run.doc = NoDoc /\ run.out.kind = "MalformedBody"

\* Two events: the first holds document A, the last is two data lines with
\* no blank line after them; the last one is parsed.
C8_Witness ==
    /\ SseDecoded
    /\ EventCount(resp.body) = 2
    /\ Len(resp.body) = 4
    /\ resp.body[1] = <<DataPrefix, JsonChunk(SseDocA)>>
    /\ IsBlank(resp.body[2])
    /\ run.data.s = <<HalfA, Newline, HalfB>>
    /\ run.doc = DocHalves
    /\ run.out.kind = "ok"

EnvelopeChecked == cpc = "done" /\ run.env # NoOutcome

C10_InvalidResult ==
    /\ (cpc = "done" /\ run.doc # NoDoc /\ run.doc.isdict
            /\ run.doc.error.t = "absent" /\ run.doc.result.t # "object") =>
          run.out.kind = "InvalidEnvelope"
    /\ (cpc = "done" /\ run.out.kind = "ok") =>
          /\ run.doc.isdict
          /\ run.doc.jsonrpc = "2.0"
          /\ run.doc.error.t \in {"absent", "null"} \/ run.doc.error.n = 0
          /\ run.doc.result.t = "object"
          /\ run.out.result = run.doc.result

\* The first backend call of the running ask has been made.
FirstCallMade == pc \in {"model", "tools", "returned"} /\ sent # NoSent

\* C11: every backend call of an ask is given a sequence that starts with
\* the system prompt and the question of that ask, the first call exactly
\* these two messages; the sequence of the running ask holds one system and
\* one user message and its assistant messages are the responses of this
\* ask alone.
C11_FreshMessages ==
    /\ FirstCallMade =>
          /\ SubSeq(sent.messages, 1, 2) =
                <<Msg("system", Content(SystemPrompt), <<>>, <<>>),
                  Msg("user", Content(Question(asks)), <<>>, <<>>)>>
          /\ sent.tool_choice = "auto" => Len(sent.messages) = 2
    /\ pc \in {"model", "tools", "returned"} =>
          /\ Len(SelectSeq(messages, LAMBDA m : m.role \in {"system", "user"})) = 2
          /\ NumAssistant(messages) <= MaxRounds + 1
          /\ \A i \in 1..Len(messages) :
                messages[i].role = "tool" =>
                    \E a \in 3..(i - 1) :
                        /\ messages[a].role = "assistant"
                        /\ \E j \in 1..Len(messages[a].tool_calls) :
                              messages[a].tool_calls[j].id = messages[i].tool_call_id

\* The second ask's first backend call, after a first ask that ran a tool
\* call: it was given the prompt and the second question, nothing else.
C11_Witness ==
    /\ asks = 2
    /\ askBase > 1
    /\ pc = "returned"
    /\ sent.tool_choice = "auto"
    /\ sent.messages = InitialMessages(2)

\* The text-typed parts of a content list, and their texts (a part without
\* a text has the empty text).
TextParts(content) == SelectSeq(content, LAMBDA c : c.isdict /\ c.type = "text")
TextOf(part) == IF part.text = "none" THEN "" ELSE part.text
RECURSIVE NlJoinedStrings(_)
NlJoinedStrings(ss) ==
    IF ss = <<>> THEN <<>>
    ELSE IF Len(ss) = 1 THEN <<ss[1]>>
    ELSE <<ss[1], "\n">> \o NlJoinedStrings(Tail(ss))
AllTexts(result) ==
    LET tp == TextParts(result.content) IN [i \in 1..Len(tp) |-> TextOf(tp[i])]
NonEmptyTexts(result) == SelectSeq(AllTexts(result), LAMBDA t : t # "")
PrettyJson(result) == <<"json.dumps:", result.json>>
Rendered == cpc = "shown" /\ shown.some

\* C12 as claimed: the texts of all text-typed parts, in order, joined by
\* newline; the JSON of the result exactly when there is no text-typed part.
C12_AllTextParts ==
    Rendered =>
        LET res == run.out.result IN
        IF TextParts(res.content) = <<>>
        THEN shown.s = PrettyJson(res)
        ELSE shown.s = NlJoinedStrings(AllTexts(res))

\* C12, amended: the non-empty texts of the text-typed parts, in order,
\* joined by newline, parts of other types and parts that are no object
\* ignored; the JSON of the result exactly when no text-typed part has a
\* non-empty text.
C12_NonEmptyTexts ==
    Rendered =>
        LET res == run.out.result IN
        IF NonEmptyTexts(res) = <<>>
        THEN shown.s = PrettyJson(res)
        ELSE shown.s = NlJoinedStrings(NonEmptyTexts(res))

\* The content [text A, image, text B] rendered as "A\nB".
C12_Witness ==
    /\ Rendered
    /\ run.out.result = ResTextMulti
    /\ shown.s = <<"A", "\n", "B">>

\* _rpc has run on the exchange.
Decoded == cpc \in {"done", "shown", "listed"}

\* A 2xx exchange whose content type is neither JSON nor an event stream,
\* decoded.
FallbackDecoded ==
    /\ Decoded
    /\ resp.transport = "ok"
    /\ resp.status >= 200 /\ resp.status < 300
    /\ ~IsJsonType(resp.ctype) /\ ~IsSseType(resp.ctype)

\* C13: on the last-resort path UnexpectedContentType is raised only when
\* the body is no JSON; a body that is JSON gets the outcome of envelope
\* validation on its document, which is the outcome the same body gets
\* under application/json.
C13_FallbackAsJson ==
    FallbackDecoded =>
        /\ run.out.kind = "UnexpectedContentType" => ~JsonLoads(BodyText(resp.body)).ok
        /\ JsonLoads(BodyText(resp.body)).ok =>
              /\ run.out = UnwrapJsonrpc(JsonLoads(BodyText(resp.body)).doc)
              /\ run.out = Rpc([resp EXCEPT !.ctype = "application/json"])

\* list_tools has run on an exchange whose result validated.
ListedValid == cpc = "listed" /\ run.out.exc = "none"

\* C14 as claimed: list_tools fails with InvalidEnvelope when `tools` is
\* absent or no list, and returns the list only when `tools` is a list.
C14_ToolsMustBeList ==
    ListedValid =>
        /\ run.out.result.tools # "list" => listed.kind = "InvalidEnvelope"
        /\ listed.exc = "none" => run.out.result.tools = "list"

\* C14, amended: list_tools fails with InvalidEnvelope when `tools` is
\* present and no list; it returns the list when `tools` is a list and the
\* empty list when `tools` is absent; and it fails as _rpc failed when the
\* result did not validate.
C14_ToolsListOrAbsent ==
    /\ ListedValid =>
          /\ run.out.result.tools \notin {"list", "absent"} =>
                /\ listed.exc = "MCPError"
                /\ listed.kind = "InvalidEnvelope"
                /\ listed.text[1] = "Invalid tools/list shape:"
          /\ run.out.result.tools = "list" =>
                listed.exc = "none" /\ listed.result.items = run.out.result.items
          /\ run.out.result.tools = "absent" =>
                listed.exc = "none" /\ listed.result.items = <<>>
    /\ (cpc = "listed" /\ run.out.exc # "none") => listed = run.out

\* A result {"tools": null}: list_tools fails with the shape error.
C14_Witness ==
    /\ ListedValid
    /\ run.out.result = ResToolsNull
    /\ listed.kind = "InvalidEnvelope"
    /\ listed.text = <<"Invalid tools/list shape:", "{tools:null}">>

\* The stage of _rpc at which the decoded exchange failed first ("none":
\* at no stage).
FailedStage ==
    IF resp.transport = "error" THEN "transport"
    ELSE IF resp.status < 200 \/ resp.status >= 300 THEN "status"
    ELSE IF run.doc = NoDoc THEN "parse"
    ELSE IF run.env.exc # "none" THEN "envelope"
    ELSE "none"
StageKinds(stage) ==
    CASE stage = "transport" -> {"Network"}
      [] stage = "status" -> {"HttpStatus"}
      [] stage = "parse" -> {"MalformedBody", "UnexpectedContentType"}
      [] stage = "envelope" -> {"InvalidEnvelope", "RemoteError"}
      [] OTHER -> {"ok"}

\* C15: a failing _rpc raises one error of one ProtocolError kind, the kind
\* of the stage that failed first (transport: Network; status outside
\* [200,300): HttpStatus, whatever the content type and body; then the body
\* parse; then envelope validation), and a body is parsed or an envelope
\* validated only under a 2xx status.
C15_FirstFailingStage ==
    Decoded =>
        /\ run.out.exc \in {"none", "MCPError"}
        /\ run.out.kind \in StageKinds(FailedStage)
        /\ FailedStage = "envelope" => run.out.kind = run.env.kind
        /\ FailedStage \in {"transport", "status"} =>
              run.doc = NoDoc /\ run.env = NoOutcome /\ run.data = NoData

\* The tool messages that follow assistant message a, up to the next
\* assistant message.
ToolMsgsAfter(a) ==
    LET later == {i \in AsstIdx : i > a}
        stop == IF later = {} THEN Len(messages) + 1
                ELSE CHOOSE i \in later : \A k \in later : i <= k
    IN  SubSeq(messages, a + 1, stop - 1)
InAsk == pc \in {"model", "tools", "returned"}

\* C16: the calls of a round are handled one at a time in the order the
\* backend gave them: after each assistant message come the tool messages
\* of its first calls, in order; while the round runs the call handled
\* next is the one after them, and no request has gone out for it or a
\* later one; and an assistant message that another one follows has a tool
\* message for every call.
C16_Sequential ==
    InAsk =>
        /\ \A a \in AsstIdx :
              LET tm == ToolMsgsAfter(a) IN
              /\ Len(tm) <= Len(messages[a].tool_calls)
              /\ \A j \in 1..Len(tm) :
                    /\ tm[j].role = "tool"
                    /\ tm[j].tool_call_id = messages[a].tool_calls[j].id
              /\ a < LastAsst => Len(tm) = Len(messages[a].tool_calls)
              /\ (a = LastAsst /\ pc = "tools") => tc = Len(tm) + 1
              /\ (a = LastAsst /\ pc = "model") => Len(tm) = Len(messages[a].tool_calls)
        /\ Len(reqs) - askBase <=
              Len(SelectSeq(messages, LAMBDA m : m.role = "tool"))

\* A round of three calls under way: two handled, in order, the third
\* next.
C16_Witness ==
    /\ pc = "tools"
    /\ Len(messages[LastAsst].tool_calls) = 3
    /\ tc = 3
    /\ Len(ToolMsgsAfter(LastAsst)) = 2
    /\ ToolMsgsAfter(LastAsst)[1].tool_call_id = <<1, 1>>
    /\ ToolMsgsAfter(LastAsst)[2].tool_call_id = <<1, 2>>
    /\ messages[LastAsst].tool_calls[1].arguments = BadArgs
    /\ messages[LastAsst].tool_calls[2].arguments = GoodArgs

\* The session is constructed: build_clients returned a client.
Constructed == pc \notin {"start", "fallback", "bootFailed"}

\* C17: once the session is constructed, no step changes the client, the
\* auth mode or the cached tool schema or makes another client; every
\* request that goes out is a tools/call on the session's client; and every
\* backend call is given the cached schema.
C17_CatalogFixed ==
    [][Constructed =>
          /\ mcp' = mcp /\ mode' = mode /\ oa_tools' = oa_tools /\ made' = made
          /\ boot' = boot
          /\ \A i \in (Len(reqs) + 1)..Len(reqs') :
                reqs'[i].method = "tools/call" /\ reqs'[i].client = mcp
          /\ (sent' # sent /\ sent' # NoSent) => sent'.tools = oa_tools]_vars

\* A second ask of a session with a tool in its schema has returned, its
\* latest call_tool having failed: the backend was given the schema.
C17_Witness ==
    /\ Constructed
    /\ asks = 2
    /\ pc = "returned"
    /\ last.exc # "none"
    /\ oa_tools # <<>>
    /\ sent.tools = oa_tools
    /\ Len(SelectSeq(reqs, LAMBDA q : q.method = "tools/list")) = Len(boot)

IdRuns ==
    {[start |-> wire[i].start, end |-> wire[i].end, open |-> FALSE] : i \in 1..Len(wire)}
        \cup {[start |-> thr[t].start, end |-> thr[t].end, open |-> FALSE] :
                 t \in {u \in Callers : thr[u].pc = "read"}}
        \cup {[start |-> thr[t].start, end |-> 0, open |-> TRUE] :
                 t \in {u \in Callers : thr[u].pc \in {"loaded", "stored"}}}
RunBefore(p, q) == ~p.open /\ p.end < q.start
\* No two runs of _next_id overlapped: the client was used as by one owner.
Serialized == \A p, q \in IdRuns : p = q \/ RunBefore(p, q) \/ RunBefore(q, p)

\* C19: uniqueness of the ids rests on the runs of _next_id not
\* overlapping: as long as none has overlapped another, the request of the
\* n-th run carries id n and no two requests carry the same id.  That
\* overlapping runs do give two requests the same id is C19_Witness.
C19_UniqueWhenSerialized ==
    Serialized =>
        \A i \in 1..Len(wire) :
            /\ wire[i].id = Cardinality({p \in IdRuns : p.start <= wire[i].start})
            /\ \A j \in 1..Len(wire) : i # j => wire[i].id # wire[j].id

\* Both callers incremented the counter, no increment was lost, and both
\* read 2: two requests with the same id.
C19_Witness ==
    /\ Len(wire) = 2
    /\ sharedId = 2
    /\ wire[1].caller # wire[2].caller
    /\ wire[1].id = 2
    /\ wire[2].id = 2

\* The sequence a backend call after the first one of the ask was given.
SentLater == InAsk /\ sent # NoSent /\ Len(sent.messages) > 2

\* C20: in a sequence given to a backend call after the first, every
\* assistant message with tool calls is followed at once by one tool
\* message per call, in the calls' order and with the calls' ids, whatever
\* the outcome of each call; every tool message answers a call of the
\* nearest assistant message before it; and what was given to the backend
\* stays the beginning of the sequence, which grows at its end only.
C20_ToolMessagesPaired ==
    /\ SentLater =>
          LET sq == sent.messages IN
          /\ \A a \in 1..Len(sq) :
                sq[a].role = "assistant" =>
                    /\ a + Len(sq[a].tool_calls) <= Len(sq)
                    /\ \A j \in 1..Len(sq[a].tool_calls) :
                          /\ sq[a + j].role = "tool"
                          /\ sq[a + j].tool_call_id = sq[a].tool_calls[j].id
                    /\ a + Len(sq[a].tool_calls) < Len(sq) =>
                          sq[a + Len(sq[a].tool_calls) + 1].role = "assistant"
          /\ \A i \in 1..Len(sq) :
                sq[i].role = "tool" =>
                    \E a \in 1..(i - 1) :
                        /\ sq[a].role = "assistant"
                        /\ i - a <= Len(sq[a].tool_calls)
                        /\ sq[a].tool_calls[i - a].id = sq[i].tool_call_id
                        /\ \A k \in (a + 1)..(i - 1) : sq[k].role = "tool"
          /\ sq[Len(sq)].role = "tool"
    /\ (InAsk /\ sent # NoSent) =>
          /\ Len(sent.messages) < Len(messages)
          /\ SubSeq(messages, 1, Len(sent.messages)) = sent.messages

\* The third backend call of an ask was given two rounds: the first with a
\* call that had bad arguments and a call that was made, the second with a
\* call that failed.
C20_Witness ==
    /\ SentLater
    /\ Len(sent.messages) = 7
    /\ sent.messages[3].role = "assistant"
    /\ Len(sent.messages[3].tool_calls) = 2
    /\ sent.messages[4].content.s = <<"Bad args: ", "JSONDecodeError">>
    /\ sent.messages[5].tool_call_id = <<1, 2>>
    /\ sent.messages[6].role = "assistant"
    /\ sent.messages[7].tool_call_id = <<2, 1>>
    /\ sent.messages[7].content.s[1] = "Error calling "

====
